---- MODULE Spec2Model ----
(***************************************************************************)
(* A model of the analysis engine of agriML: the band-index functions      *)
(* (analysis_backend/indices.py), the pixel classifier                     *)
(* (analysis_backend/classification.py) and the temporal simulator and     *)
(* anomaly detector (analysis_backend/temporal.py), with the callers in    *)
(* app.py.                                                                 *)
(*                                                                         *)
(* Arrays are flattened row-major: a 2-D array is a record                 *)
(* [h, w, v] with Len(v) = h*w, position (r,c) stored at (r-1)*w + c.      *)
(* A cube pixel is the id of its spectrum (Signatures): two pixels with    *)
(* the same id have the same value in every band.                          *)
(* Floating-point numbers are fixed-point integers in units of 1/Scale,    *)
(* rounded to nearest by RoundDiv.                                         *)
(***************************************************************************)
EXTENDS Integers, Sequences, FiniteSets, TLC

VARIABLES
    pc,                 \* control point of the call in progress
    data_cube,          \* [h, w, bands, dtype, sig]: the hyperspectral cube
    ground_truth,       \* [h, w, v]: the label map
    split,              \* classify_pixels: the train/test partition
    rf,                 \* classify_pixels: the fitted forest
    metrics,            \* classify_pixels: the metrics dict
    y_pred_full,        \* classify_pixels: rf.predict(X)
    result,             \* what the call returned or raised
    index_maps,         \* the caller's latest result of each index function
    caller,             \* the entry point of the call in progress
    field_class,        \* simulate_ndvi_time_series: the target class
    num_steps,          \* simulate_ndvi_time_series: the step count
    field_pixels,       \* simulate_ndvi_time_series: the selected positions
    avg_base_ndvi,      \* simulate_ndvi_time_series: the baseline
    scaled_curve,       \* simulate_ndvi_time_series: the rescaled curve
    ts_df,              \* the frame simulate_ndvi_time_series returned
    time_series_df,     \* the frame passed to detect_anomalies
    window,             \* detect_anomalies: the window size
    std_dev_threshold,  \* detect_anomalies: the threshold
    analysis_df,        \* the frame detect_anomalies returned
    np_random,          \* the state of numpy's global random generator
    history             \* the calls completed so far in this process

clfVars == <<split, rf, metrics, y_pred_full>>
simVars == <<field_class, num_steps, field_pixels, avg_base_ndvi, scaled_curve, ts_df>>
detVars == <<time_series_df, window, std_dev_threshold, analysis_df>>
procVars == <<np_random, history>>

vars == <<pc, data_cube, ground_truth, result, index_maps, caller,
          clfVars, simVars, detVars, procVars>>

----------------------------------------------------------------------------
(* Bounds of the model. *)

\* largest number of pixels h*w of a cube
MaxPixels == 10
\* largest number of rows of a cube
MaxH == 2
\* largest step count of a simulated series
MaxSteps == 13
\* number of pixels of the cubes the simulator is run on
SimPixels == 2
\* largest length, value and window of the series given to the detector
MaxLen == 4
MaxVal == 2
MaxWindow == 4
\* largest number of calls of a process
MaxCalls == 2

----------------------------------------------------------------------------
(* Values shared by the components. *)

None == "None"

\* class identifiers of a label map; 0 is the unlabeled sentinel
Classes == {1, 2, 3}
Labels == {0} \cup Classes

\* the spectra a cube pixel can have: the bands the code reads
Signatures == <<
    [red |-> 50,  rededge |-> 150, nir |-> 200, swir |-> 80],
    [red |-> 50000, rededge |-> 45000, nir |-> 25000, swir |-> 37500],
    [red |-> 0,   rededge |-> 0,   nir |-> 0,   swir |-> 0] >>
Sigs == 1..Len(Signatures)

\* band count of the AVIRIS cube the code is written for
SalinasBands == 224

RECURSIVE SumOver(_, _)
SumOver(S, f) ==
    IF S = {} THEN 0
    ELSE LET x == CHOOSE y \in S : TRUE IN f[x] + SumOver(S \ {x}, f)

\* the label map with a zeros, then b ones, c twos and the rest threes
RunLabels(n, a, b, c) ==
    [i \in 1..n |-> IF i <= a THEN 0 ELSE IF i <= a + b THEN 1
                    ELSE IF i <= a + b + c THEN 2 ELSE 3]

\* the cube whose pixel i has spectrum ((i + off) mod k) + 1
StripedSigs(n, off, k) == [i \in 1..n |-> ((i + off) % k) + 1]

----------------------------------------------------------------------------
(* classify_pixels *)

\* number of labeled pixels with label c and spectrum s
Avail(c, s) ==
    Cardinality({i \in 1..Len(ground_truth.v) :
        ground_truth.v[i] = c /\ data_cube.sig[i] = s})

ClassCount(c) == SumOver(Sigs, [s \in Sigs |-> Avail(c, s)])

\* np.unique(y_labeled)
LabeledClasses == {c \in Classes : ClassCount(c) > 0}

\* len(y_labeled), the number of pixels left by the filter y != 0
NLabeledUnfilteredMutant == Len(ground_truth.v)
NLabeled == SumOver(Classes, [c \in Classes |-> ClassCount(c)])

\* ceil(0.3 * n)
NTest(n) == (3 * n + 9) \div 10
NTrain(n) == n - NTest(n)

\* sklearn's _approximate_mode(class_counts, n_draws): the floor of each
\* class's share, the rest given to the largest remainders, ties at random
ApproxModes(cnt, draws, n) ==
    LET K == {c \in Classes : cnt[c] > 0}
        fl == [c \in Classes |-> (cnt[c] * draws) \div n]
        rem == [c \in Classes |-> (cnt[c] * draws) % n]
        need == draws - SumOver(Classes, fl)
    IN  { [c \in Classes |-> IF c \in A THEN fl[c] + 1 ELSE fl[c]] :
            A \in { B \in SUBSET K :
                /\ Cardinality(B) = need
                /\ \A x \in B, y \in K \ B : rem[x] >= rem[y] } }

\* a remainder tie between classes of different sizes: floating-point
\* rounding of counts / total * draws, not the generator, decides it
CrossCountTie(cnt, draws, n) ==
    \E x, y \in Classes :
        /\ cnt[x] > 0 /\ cnt[y] > 0 /\ cnt[x] # cnt[y]
        /\ (cnt[x] * draws) % n = (cnt[y] * draws) % n
        /\ (cnt[x] * draws) % n # 0

\* train_test_split's checks (StratifiedShuffleSplit): it raises ValueError
\* when a partition would be empty, a class has a single member, or a
\* partition is smaller than the number of classes
SplitRaises ==
    LET n == NLabeled
        k == Cardinality(LabeledClasses)
    IN  \/ NTrain(n) = 0
        \/ \E c \in LabeledClasses : ClassCount(c) < 2
        \/ NTrain(n) < k
        \/ NTest(n) < k

\* the ways to draw t pixels of class c for the test partition, as
\* [s] -> number of pixels of spectrum s (the permutation within a class)
TestPicks(c, t) ==
    { f \in [Sigs -> 0..t] :
        /\ \A s \in Sigs : f[s] <= Avail(c, s)
        /\ SumOver(Sigs, f) = t }

\* the partitions train_test_split(test_size=0.3, stratify=y_labeled) can
\* return, as [c][s] -> number of pixels of class c and spectrum s
StratifiedSplits ==
    LET n == NLabeled
        cnt == [c \in Classes |-> ClassCount(c)]
        modes == ApproxModes(cnt, NTrain(n), n)
        picks == UNION { TestPicks(c, cnt[c] - tr[c]) : c \in Classes, tr \in modes }
    IN  { [train |-> [c \in Classes |-> [s \in Sigs |-> Avail(c, s) - te[c][s]]],
           test |-> te] :
            te \in { t \in [Classes -> picks] :
                \E tr \in modes :
                    \A c \in Classes : t[c] \in TestPicks(c, cnt[c] - tr[c]) } }

\* the classes of a partition, np.unique of its labels
PartClasses(part) ==
    {c \in Classes : \E s \in Sigs : part[c][s] > 0}

\* the spectra that occur in the cube
CubeSigs == {data_cube.sig[i] : i \in 1..Len(data_cube.sig)}

\* rf.fit(X_train, y_train): a forest is a function of the pixel's spectrum
\* whose values are classes of the training partition (rf.classes_)
FittedForests ==
    { [classes |-> PartClasses(split.train), predict |-> f] :
        f \in [CubeSigs -> PartClasses(split.train)] }

RECURSIVE SortedSeq(_)
SortedSeq(S) ==
    IF S = {} THEN <<>>
    ELSE LET m == CHOOSE x \in S : \A y \in S : x <= y
         IN <<m>> \o SortedSeq(S \ {m})

\* number of test pixels of true class a predicted as class b
TestCount(a, b) ==
    SumOver({s \in Sigs : s \in CubeSigs /\ rf.predict[s] = b}, split.test[a])

\* the labels of the predictions on the test partition
PredTestClasses ==
    {rf.predict[s] : s \in {x \in CubeSigs : \E c \in Classes : split.test[c][x] > 0}}

\* the labels sklearn's confusion_matrix(y_test, y_pred_test) is indexed by:
\* unique_labels(y_true, y_pred)
ConfusionLabelsTestOnlyMutant == PartClasses(split.test)
ConfusionLabels == PartClasses(split.test) \cup PredTestClasses

\* confusion_matrix(y_test, y_pred_test).tolist()
ConfusionMatrix ==
    LET ls == SortedSeq(ConfusionLabels)
    IN  [i \in 1..Len(ls) |-> [j \in 1..Len(ls) |-> TestCount(ls[i], ls[j])]]

\* fixed-point scale of the floating-point values
Scale == 1000

\* a / b rounded to the nearest integer (b > 0)
RoundDiv(a, b) == (2 * a + b) \div (2 * b)

NTestPixels == SumOver(Classes, [c \in Classes |-> SumOver(Sigs, split.test[c])])

\* the metrics dict of lines 50-55
Metrics ==
    LET ls == ConfusionLabels
        n == NTestPixels
        tp == [c \in ls |-> TestCount(c, c)]
        support == [c \in ls |-> SumOver(Sigs, split.test[c])]
        predicted == [c \in ls |-> SumOver(ls, [a \in ls |-> TestCount(a, c)])]
    IN  [ overall_accuracy |-> RoundDiv(Scale * SumOver(ls, tp), n),
          precision |-> SumOver(ls, [c \in ls |->
                IF predicted[c] = 0 THEN 0
                ELSE RoundDiv(Scale * support[c] * tp[c], n * predicted[c])]),
          recall |-> SumOver(ls, [c \in ls |->
                IF support[c] = 0 THEN 0
                ELSE RoundDiv(Scale * support[c] * tp[c], n * support[c])]),
          confusion_matrix |-> ConfusionMatrix ]

\* classification_map[ground_truth == 0] = 0
MaskUnlabeledSkipMutant(map, gt) == map
MaskUnlabeled(map, gt) ==
    [i \in 1..Len(map) |-> IF gt[i] = 0 THEN 0 ELSE map[i]]

NoMap == [h |-> 0, w |-> 0, v |-> <<>>]
Pending == [status |-> "pending", map |-> NoMap, metrics |-> None]
Outcome(st) == [status |-> st, map |-> NoMap, metrics |-> None]

\* lines 21-34: flatten, drop the unlabeled pixels, stop when none is left
ClfFilter ==
    /\ pc = "filter"
    /\ IF Len(ground_truth.v) # data_cube.h * data_cube.w
       THEN \* X[y != 0]: the boolean index does not match the rows of X
            /\ result' = Outcome("IndexError")
            /\ pc' = "done"
       ELSE IF NLabeled = 0
       THEN /\ result' = Outcome("no_result")
            /\ pc' = "done"
       ELSE /\ pc' = "split"
            /\ UNCHANGED result
    /\ UNCHANGED <<data_cube, ground_truth, clfVars, index_maps, caller, simVars, detVars, procVars>>

\* lines 37-39: the stratified 70/30 split of the labeled pixels
ClfSplit ==
    /\ pc = "split"
    /\ IF SplitRaises
       THEN /\ result' = Outcome("ValueError")
            /\ pc' = "done"
            /\ UNCHANGED split
       ELSE /\ split' \in StratifiedSplits
            /\ pc' = "train"
            /\ UNCHANGED result
    /\ UNCHANGED <<data_cube, ground_truth, rf, metrics, y_pred_full>>
    /\ UNCHANGED <<index_maps, caller, simVars, detVars, procVars>>

\* lines 43-44: fit the forest on the training partition
ClfTrain ==
    /\ pc = "train"
    /\ rf' \in FittedForests
    /\ pc' = "evaluate"
    /\ UNCHANGED <<data_cube, ground_truth, split, metrics, y_pred_full, result>>
    /\ UNCHANGED <<index_maps, caller, simVars, detVars, procVars>>

\* lines 48-55: predict the test partition and compute the metrics
ClfEvaluate ==
    /\ pc = "evaluate"
    /\ metrics' = Metrics
    /\ pc' = "predict"
    /\ UNCHANGED <<data_cube, ground_truth, split, rf, y_pred_full, result>>
    /\ UNCHANGED <<index_maps, caller, simVars, detVars, procVars>>

\* lines 59-66: predict every pixel, reshape to (h, w), zero the unlabeled
\* pixels and return
ClfPredictFull ==
    /\ pc = "predict"
    /\ LET pred == [i \in 1..Len(data_cube.sig) |-> rf.predict[data_cube.sig[i]]]
       IN  /\ y_pred_full' = pred
           /\ IF <<ground_truth.h, ground_truth.w>> # <<data_cube.h, data_cube.w>>
              THEN \* the boolean index does not match the map's shape
                   result' = Outcome("IndexError")
              ELSE result' = [status |-> "ok",
                              map |-> [h |-> data_cube.h, w |-> data_cube.w,
                                       v |-> MaskUnlabeled(pred, ground_truth.v)],
                              metrics |-> metrics]
    /\ pc' = "done"
    /\ UNCHANGED <<data_cube, ground_truth, split, rf, metrics>>
    /\ UNCHANGED <<index_maps, caller, simVars, detVars, procVars>>

\* the variables of the components a call does not use
ClfIdle == split = None /\ rf = None /\ metrics = None /\ y_pred_full = None
IdxIdle == index_maps = None
SimIdle ==
    /\ field_class = 0 /\ num_steps = 0 /\ field_pixels = {}
    /\ avg_base_ndvi = 0 /\ scaled_curve = <<>> /\ ts_df = None
DetIdle ==
    /\ time_series_df = None /\ window = 0
    /\ std_dev_threshold = None /\ analysis_df = None

\* a fresh process: the generator is seeded from the operating system, so
\* its state is not known, and no call has completed
Unseeded == [known |-> FALSE, st |-> 0, e |-> <<0, 0, 0>>]
FreshProcess == np_random = Unseeded /\ history = <<>>

\* the label-map shapes tried with a cube of shape (h, w): the cube's own,
\* its transpose (same number of entries) and one column more
ShapeVariants(h, w) == {<<h, w>>, <<w, h>>, <<h, w + 1>>}

ClassifyInit ==
    /\ pc = "filter"
    /\ \E h \in 1..MaxH, w \in 1..MaxPixels :
        /\ h * w <= MaxPixels
        /\ data_cube = [h |-> h, w |-> w, bands |-> SalinasBands, dtype |-> "uint16",
                        sig |-> StripedSigs(h * w, 0, 2)]
        /\ \E g \in ShapeVariants(h, w) :
            \E a \in 0..(g[1] * g[2]) :
              \E b \in 0..(g[1] * g[2] - a) :
                \E c \in 0..(g[1] * g[2] - a - b) :
                  ground_truth = [h |-> g[1], w |-> g[2],
                                  v |-> RunLabels(g[1] * g[2], a, b, c)]
    /\ LET cnt == [c \in Classes |-> ClassCount(c)]
       IN  Len(ground_truth.v) = data_cube.h * data_cube.w
             => ~CrossCountTie(cnt, NTrain(NLabeled), NLabeled)
    /\ caller = "classify_pixels"
    /\ ClfIdle
    /\ IdxIdle
    /\ SimIdle
    /\ DetIdle
    /\ FreshProcess
    /\ result = Pending

ClassifyNext ==
    \/ ClfFilter
    \/ ClfSplit
    \/ ClfTrain
    \/ ClfEvaluate
    \/ ClfPredictFull

SpecClassify == ClassifyInit /\ [][ClassifyNext]_vars

----------------------------------------------------------------------------
(* Properties of classify_pixels, checked under SpecClassify. *)

SameShape ==
    <<ground_truth.h, ground_truth.w>> = <<data_cube.h, data_cube.w>>

AllUnlabeled == \A i \in 1..Len(ground_truth.v) : ground_truth.v[i] = 0

\* C1: whenever classify_pixels returns a map, the map has the cube's
\* spatial shape (H, W), which is the label map's shape, and is 0 at every
\* position where the label map is 0, whatever the forest predicted there.
C1_MapShapeAndUnlabeledZero ==
    result.status = "ok" =>
        /\ <<result.map.h, result.map.w>> = <<data_cube.h, data_cube.w>>
        /\ <<result.map.h, result.map.w>> = <<ground_truth.h, ground_truth.w>>
        /\ Len(result.map.v) = data_cube.h * data_cube.w
        /\ \A i \in 1..Len(ground_truth.v) :
              ground_truth.v[i] = 0 => result.map.v[i] = 0

\* a map was returned, and the forest had predicted a class at a position
\* whose label is 0
C1_Witness ==
    /\ result.status = "ok"
    /\ \E i \in 1..Len(ground_truth.v) :
          ground_truth.v[i] = 0 /\ y_pred_full[i] # 0 /\ result.map.v[i] = 0

\* C2: when the cube's spatial shape differs from the label map's shape the
\* call fails with the shape error before any per-pixel work: control never
\* reaches the split, the training or a prediction, and the call ends raising.
C2_ShapeMismatchBeforeAnyWork ==
    ~SameShape =>
        /\ pc \in {"filter", "done"}
        /\ pc = "done" => result.status = "IndexError"

\* C3: when every entry of the label map is 0 (the map having one entry per
\* cube pixel), classify_pixels returns the no-result signal, no map and no
\* metrics, without raising and without reaching the split, the training or
\* a prediction.
C3_AllUnlabeledNoResult ==
    (AllUnlabeled /\ Len(ground_truth.v) = data_cube.h * data_cube.w) =>
        /\ pc \in {"filter", "done"}
        /\ pc = "done" =>
              /\ result.status = "no_result"
              /\ result.map = NoMap
              /\ result.metrics = None

\* the call has returned on an all-zero label map
C3_Witness ==
    /\ pc = "done"
    /\ AllUnlabeled
    /\ Len(ground_truth.v) = data_cube.h * data_cube.w
    /\ result.status = "no_result"

\* the labels of the test partition, and those predicted on it
TestLabelSet == {c \in Classes : \E s \in Sigs : split.test[c][s] > 0}
TestPredictedSet ==
    {c \in Classes : \E a \in Classes, s \in CubeSigs :
        split.test[a][s] > 0 /\ rf.predict[s] = c}

IsSquare(m, k) == Len(m) = k /\ \A i \in 1..Len(m) : Len(m[i]) = k

----------------------------------------------------------------------------
(* calculate_ndvi, calculate_savi, calculate_ndwi, calculate_ndre *)

\* the 0-based band indices of the AVIRIS sensor
RedBand == 31
RedEdgeBand == 38
NirBand == 53
SwirBand == 135

BandField(b) ==
    CASE b = RedBand -> "red"
      [] b = RedEdgeBand -> "rededge"
      [] b = NirBand -> "nir"
      [] b = SwirBand -> "swir"

\* data_cube[:, :, b] raises IndexError unless b < bands
HasBand(cube, b) == b < cube.bands

\* the value of band b at pixel i, in the cube's dtype
ReadBand(cube, b, i) ==
    [t |-> cube.dtype, x |-> Signatures[cube.sig[i]][BandField(b)]]

\* .astype(float): the same number as a float64, here an exact fraction
AsFloatKeepDtypeMutant(a) == [t |-> a.t, num |-> a.x, den |-> 1]
AsFloat(a) == [t |-> "float64", num |-> a.x, den |-> 1]

\* the value a 16-bit unsigned result is stored as
Wrap16(x) == x % (2 ^ 16)

\* a - b and a + b: between two uint16 operands numpy stays in uint16 and
\* wraps, with a float operand the result is a float
FSub(a, b) ==
    IF a.t = "uint16" /\ b.t = "uint16"
    THEN [t |-> "uint16", num |-> Wrap16(a.num - b.num), den |-> 1]
    ELSE [t |-> "float64", num |-> a.num * b.den - b.num * a.den,
          den |-> a.den * b.den]
FAdd(a, b) ==
    IF a.t = "uint16" /\ b.t = "uint16"
    THEN [t |-> "uint16", num |-> Wrap16(a.num + b.num), den |-> 1]
    ELSE [t |-> "float64", num |-> a.num * b.den + b.num * a.den,
          den |-> a.den * b.den]
FMul(a, b) == [t |-> "float64", num |-> a.num * b.num, den |-> a.den * b.den]

\* L = 0.5, the soil brightness correction factor, and 1 + L
SoilL == [t |-> "float64", num |-> 1, den |-> 2]
OnePlusL == [t |-> "float64", num |-> 3, den |-> 2]

\* the quotient of a value by epsilon = 1e-10, beyond the fixed-point range
Saturated == Scale * Scale * Scale

\* a / (b + epsilon) in units of 1/Scale: epsilon = 1e-10 is below the
\* resolution unless b = 0, where the quotient is a / epsilon
DivEps(a, b) ==
    LET n == a.num * b.den
        d == b.num * a.den
    IN  IF d = 0 THEN (IF n = 0 THEN 0 ELSE IF n > 0 THEN Saturated ELSE -Saturated)
        ELSE IF d > 0 THEN RoundDiv(Scale * n, d)
        ELSE RoundDiv(Scale * (-n), -d)

\* a fixed-point value as a float
FromFixed(x) == [t |-> "float64", num |-> x, den |-> Scale]

IndexRaised == [status |-> "IndexError", map |-> NoMap]
IndexOk(cube, v) == [status |-> "ok", map |-> [h |-> cube.h, w |-> cube.w, v |-> v]]
NotComputed == [status |-> "none", map |-> NoMap]

Pixels(cube) == 1..Len(cube.sig)

\* ndvi = (nir - red) / (nir + red + epsilon)
calculate_ndvi(cube) ==
    IF ~HasBand(cube, RedBand) THEN IndexRaised
    ELSE IF ~HasBand(cube, NirBand) THEN IndexRaised
    ELSE IndexOk(cube, [i \in Pixels(cube) |->
            LET red == AsFloat(ReadBand(cube, RedBand, i))
                nir == AsFloat(ReadBand(cube, NirBand, i))
            IN  DivEps(FSub(nir, red), FAdd(nir, red))])

\* savi = ((nir - red) / (nir + red + L + epsilon)) * (1 + L)
calculate_savi(cube) ==
    IF ~HasBand(cube, RedBand) THEN IndexRaised
    ELSE IF ~HasBand(cube, NirBand) THEN IndexRaised
    ELSE IndexOk(cube, [i \in Pixels(cube) |->
            LET red == AsFloat(ReadBand(cube, RedBand, i))
                nir == AsFloat(ReadBand(cube, NirBand, i))
            IN  DivEps(FMul(FSub(nir, red), OnePlusL),
                       FAdd(FAdd(nir, red), SoilL))])

\* ndwi = (nir - swir) / (nir + swir + epsilon)
calculate_ndwi_SwirAsRedEdgeMutant(cube) ==
    IF ~HasBand(cube, NirBand) THEN IndexRaised
    ELSE IF ~HasBand(cube, RedEdgeBand) THEN IndexRaised
    ELSE IndexOk(cube, [i \in Pixels(cube) |->
            LET nir == AsFloat(ReadBand(cube, NirBand, i))
                swir == AsFloat(ReadBand(cube, RedEdgeBand, i))
            IN  DivEps(FSub(nir, swir), FAdd(nir, swir))])
calculate_ndwi(cube) ==
    IF ~HasBand(cube, NirBand) THEN IndexRaised
    ELSE IF ~HasBand(cube, SwirBand) THEN IndexRaised
    ELSE IndexOk(cube, [i \in Pixels(cube) |->
            LET nir == AsFloat(ReadBand(cube, NirBand, i))
                swir == AsFloat(ReadBand(cube, SwirBand, i))
            IN  DivEps(FSub(nir, swir), FAdd(nir, swir))])

\* ndre = (nir - red_edge) / (nir + red_edge + epsilon)
calculate_ndre(cube) ==
    IF ~HasBand(cube, NirBand) THEN IndexRaised
    ELSE IF ~HasBand(cube, RedEdgeBand) THEN IndexRaised
    ELSE IndexOk(cube, [i \in Pixels(cube) |->
            LET nir == AsFloat(ReadBand(cube, NirBand, i))
                rededge == AsFloat(ReadBand(cube, RedEdgeBand, i))
            IN  DivEps(FSub(nir, rededge), FAdd(nir, rededge))])

\* the closed set of index names of the dashboard
IndexNames == {"NDVI", "SAVI", "NDWI", "NDRE"}

IdxFrame ==
    UNCHANGED <<pc, data_cube, ground_truth, result, caller, clfVars, simVars, detVars, procVars>>

\* index_calculators[vi_selection](data_cube), one action per function
CallNdvi ==
    /\ pc = "index"
    /\ index_maps' = [index_maps EXCEPT !["NDVI"] = calculate_ndvi(data_cube)]
    /\ IdxFrame

CallSavi ==
    /\ pc = "index"
    /\ index_maps' = [index_maps EXCEPT !["SAVI"] = calculate_savi(data_cube)]
    /\ IdxFrame

CallNdwi ==
    /\ pc = "index"
    /\ index_maps' = [index_maps EXCEPT !["NDWI"] = calculate_ndwi(data_cube)]
    /\ IdxFrame

CallNdre ==
    /\ pc = "index"
    /\ index_maps' = [index_maps EXCEPT !["NDRE"] = calculate_ndre(data_cube)]
    /\ IdxFrame

\* the band counts tried: around each band index read, and the full sensor
BandCounts ==
    {RedBand, RedBand + 1, RedEdgeBand + 1, NirBand, NirBand + 1,
     SwirBand, SwirBand + 1, SalinasBands}

NoLabels == [h |-> 0, w |-> 0, v |-> <<>>]

IndicesInit ==
    /\ pc = "index"
    /\ caller = "index_calculators"
    /\ \E h \in 1..MaxH, w \in 1..MaxPixels, off \in 0..2, b \in BandCounts :
        /\ h * w <= MaxPixels
        /\ data_cube = [h |-> h, w |-> w, bands |-> b, dtype |-> "uint16",
                        sig |-> StripedSigs(h * w, off, 3)]
    /\ ground_truth = NoLabels
    /\ index_maps = [n \in IndexNames |-> NotComputed]
    /\ ClfIdle
    /\ SimIdle
    /\ DetIdle
    /\ FreshProcess
    /\ result = Pending

IndicesNext ==
    \/ CallNdvi
    \/ CallSavi
    \/ CallNdwi
    \/ CallNdre

SpecIndices == IndicesInit /\ [][IndicesNext]_vars

----------------------------------------------------------------------------
(* Properties of the index functions, checked under SpecIndices. *)

\* the largest band index each function reads, as the claim gives them
LargestBandRead(n) == IF n = "NDWI" THEN 135 ELSE 53

\* C10: each index computation fails with the band-index error exactly when
\* the cube has too few bands for the largest band index it reads (53 for
\* NDVI, SAVI and NDRE, 135 for NDWI) and otherwise returns a map of the
\* cube's spatial shape; the failure is local, so with 54 to 135 bands NDVI,
\* SAVI and NDRE succeed while NDWI fails.
C10_FailsIffBandMissing ==
    /\ \A n \in IndexNames :
          index_maps[n].status # "none" =>
            /\ index_maps[n].status = "IndexError"
                  <=> data_cube.bands <= LargestBandRead(n)
            /\ index_maps[n].status = "ok" =>
                  /\ index_maps[n].map.h = data_cube.h
                  /\ index_maps[n].map.w = data_cube.w
                  /\ Len(index_maps[n].map.v) = data_cube.h * data_cube.w
    /\ (data_cube.bands >= 54 /\ data_cube.bands <= 135) =>
          /\ index_maps["NDVI"].status \in {"none", "ok"}
          /\ index_maps["SAVI"].status \in {"none", "ok"}
          /\ index_maps["NDRE"].status \in {"none", "ok"}
          /\ index_maps["NDWI"].status \in {"none", "IndexError"}

\* on a cube with 54 to 135 bands all four were computed: NDWI failed after
\* and before the others succeeded
C10_Witness ==
    /\ data_cube.bands >= 54 /\ data_cube.bands <= 135
    /\ index_maps["NDWI"].status = "IndexError"
    /\ \A n \in IndexNames \ {"NDWI"} : index_maps[n].status = "ok"

\* the band an index sets against the near infrared
OtherBand(n) ==
    CASE n = "NDWI" -> "swir" [] n = "NDRE" -> "rededge" [] OTHER -> "red"

\* numerator and denominator of the index n as a quotient of integers, for
\* the stored integers nir and other: (nir - other) / (nir + other), and for
\* SAVI 1.5 * (nir - other) / (nir + other + 0.5)
ExactNum(n, nir, other) == IF n = "SAVI" THEN 3 * (nir - other) ELSE nir - other
ExactDen(n, nir, other) == IF n = "SAVI" THEN 2 * (nir + other) + 1 ELSE nir + other

\* x is num / den in units of 1/Scale, rounded to nearest
IsQuotient(x, num, den) ==
    LET e == x * den - Scale * num
    IN  2 * e <= den /\ 2 * e >= -den

\* C13: on a uint16 cube every index value is the formula evaluated on the
\* stored integers as mathematical integers: negative where the near
\* infrared is below the other band, and never the result of a difference
\* or a sum that wrapped modulo 2^16.
C13_FloatArithmeticOnIntegerCube ==
    \A n \in IndexNames :
        (data_cube.dtype = "uint16" /\ index_maps[n].status = "ok") =>
            \A i \in 1..Len(data_cube.sig) :
                LET nir == Signatures[data_cube.sig[i]]["nir"]
                    other == Signatures[data_cube.sig[i]][OtherBand(n)]
                    x == index_maps[n].map.v[i]
                IN  /\ nir < other => x < 0
                    /\ ExactDen(n, nir, other) > 0
                          => IsQuotient(x, ExactNum(n, nir, other), ExactDen(n, nir, other))
                    /\ ExactDen(n, nir, other) = 0 => x = 0
C13_Witness ==
    /\ data_cube.dtype = "uint16"
    /\ \A n \in IndexNames : index_maps[n].status = "ok"
    /\ \E i \in 1..Len(data_cube.sig) :
          LET sg == Signatures[data_cube.sig[i]]
          IN  /\ sg["nir"] < sg["red"]
              /\ sg["nir"] + sg["red"] >= 2 ^ 16
              /\ index_maps["NDVI"].map.v[i] < 0
              /\ index_maps["NDRE"].map.v[i] < 0

----------------------------------------------------------------------------
(* simulate_ndvi_time_series *)

\* the defaults field_class=1, num_steps=13, and the class of the fallback
DefaultFieldClass == 1
DefaultSteps == 13
FallbackClass == 1

\* np.where(ground_truth == field_class), class 1 when that is empty;
\* ok is FALSE when both are empty (the ValueError of line 26)
SelectFieldPixelsNoFallbackMutant(gt, fc) ==
    LET target == {i \in 1..Len(gt.v) : gt.v[i] = fc}
    IN  [ok |-> target # {}, px |-> target]
SelectFieldPixels(gt, fc) ==
    LET target == {i \in 1..Len(gt.v) : gt.v[i] = fc}
        fallback == {i \in 1..Len(gt.v) : gt.v[i] = FallbackClass}
    IN  IF target # {} THEN [ok |-> TRUE, px |-> target]
        ELSE IF fallback # {} THEN [ok |-> TRUE, px |-> fallback]
        ELSE [ok |-> FALSE, px |-> {}]

\* np.mean(base_ndvi[field_pixels])
MeanOver(v, px) == RoundDiv(SumOver(px, v), Cardinality(px))

\* np.linspace(-1, 1, n)[i], i = 0..n-1
Linspace(n, i) ==
    IF n = 1 THEN -Scale ELSE -Scale + RoundDiv(2 * Scale * i, n - 1)

\* seasonal_curve = -0.8 * (x**2) + 1
Seasonal(x) == Scale - RoundDiv(8 * x * x, 10 * Scale)

\* min_ndvi = avg_base_ndvi * 0.5 and max_ndvi = avg_base_ndvi * 1.8
MinNdvi(avg) == RoundDiv(avg * 5, 10)
MaxNdvi(avg) == RoundDiv(avg * 18, 10)

\* scaled_curve = min_ndvi + (seasonal_curve * (max_ndvi - min_ndvi))
ScaledCurve(avg, n) ==
    [k \in 1..n |->
        MinNdvi(avg)
          + RoundDiv(Seasonal(Linspace(n, k - 1)) * (MaxNdvi(avg) - MinNdvi(avg)), Scale)]

\* the standard deviation 0.02 of the noise
NoiseSd == RoundDiv(2 * Scale, 100)
NoiseVals == {-2 * NoiseSd, 0, 2 * NoiseSd}

\* the states of the global generator: what the next draws will be
GenStates ==
    { [known |-> TRUE, st |-> st, e |-> e] :
        st \in 0..MaxSteps, e \in [1..3 -> NoiseVals] }

\* np.random.normal(0, 0.02, n) in generator state g: the values g.e on
\* three consecutive steps, 0 elsewhere
Draw(g, n) ==
    LET st == (g.st % n) + 1
    IN  [k \in 1..n |-> IF k >= st /\ k <= st + 2 THEN g.e[k - st + 1] ELSE 0]

\* the state np.random.normal(0, 0.02, n) leaves the generator in: the
\* generator has moved on by n draws
Advance(g, n) ==
    [known |-> TRUE, st |-> (g.st + n) % (MaxSteps + 1),
     e |-> <<g.e[2], g.e[3], g.e[1]>>]

\* the states the generator can be in at a draw: its state when that is
\* known, any state in a process that never seeded it
CurrentGen == IF np_random.known THEN {np_random} ELSE GenStates

\* every draw of np.random.normal(0, 0.02, n) tried
NoiseDraws(n) == { Draw(g, n) : g \in GenStates }

\* np.clip(x, 0, 1)
ClipSkipMutant(x) == x
Clip(x) == IF x < 0 THEN 0 ELSE IF x > Scale THEN Scale ELSE x

\* freq='14D': days between two timestamps; day 0 is 2023-01-01
FreqDays == 14
DateRange(n) == [k \in 1..n |-> FreqDays * (k - 1)]

\* pd.DataFrame({'date': dates, 'ndvi': values}); id tells objects apart
DataFrame(id, dates, values) ==
    [id |-> id, columns |-> <<"date", "ndvi">>,
     data |-> [c \in {"date", "ndvi"} |-> IF c = "date" THEN dates ELSE values]]

\* df.copy(): a new object with the same columns and rows
DfCopyAliasMutant(df, id) == df
DfCopy(df, id) == [df EXCEPT !.id = id]

\* df[name] = values, in place
SetColumn(df, name, values) ==
    [id |-> df.id,
     columns |-> IF \E k \in 1..Len(df.columns) : df.columns[k] = name
                 THEN df.columns ELSE Append(df.columns, name),
     data |-> [c \in DOMAIN df.data \cup {name} |->
                 IF c = name THEN values ELSE df.data[c]]]

SimFrame ==
    UNCHANGED <<data_cube, ground_truth, index_maps, caller, clfVars, detVars, history>>

\* lines 20-26: the pixels of the target class, else of class 1, else raise
SimSelect ==
    /\ pc = "select"
    /\ LET sel == SelectFieldPixels(ground_truth, field_class)
       IN  IF sel.ok
           THEN /\ field_pixels' = sel.px
                /\ pc' = "baseline"
                /\ UNCHANGED result
           ELSE /\ result' = Outcome("ValueError")
                /\ pc' = "done"
                /\ UNCHANGED field_pixels
    /\ UNCHANGED <<field_class, num_steps, avg_base_ndvi, scaled_curve, ts_df, np_random>>
    /\ SimFrame

\* lines 29-30: the mean NDVI of the selected pixels
SimBaseline ==
    /\ pc = "baseline"
    /\ LET base_ndvi == calculate_ndvi(data_cube)
       IN  IF base_ndvi.status = "IndexError"
           THEN /\ result' = Outcome("IndexError")
                /\ pc' = "done"
                /\ UNCHANGED avg_base_ndvi
           ELSE /\ avg_base_ndvi' = MeanOver(base_ndvi.map.v, field_pixels)
                /\ pc' = "curve"
                /\ UNCHANGED result
    /\ UNCHANGED <<field_class, num_steps, field_pixels, scaled_curve, ts_df, np_random>>
    /\ SimFrame

\* lines 33-41: the parabola over linspace(-1, 1, num_steps), rescaled
SimCurve ==
    /\ pc = "curve"
    /\ scaled_curve' = ScaledCurve(avg_base_ndvi, num_steps)
    /\ pc' = "noise"
    /\ UNCHANGED <<field_class, num_steps, field_pixels, avg_base_ndvi, ts_df, result, np_random>>
    /\ SimFrame

\* lines 43-51: add the noise, clip, attach the dates and return the frame
SimNoise ==
    /\ pc = "noise"
    /\ \E g \in CurrentGen :
        LET noise == Draw(g, num_steps)
        IN  /\ ts_df' = DataFrame(1, DateRange(num_steps),
                    [k \in 1..num_steps |-> Clip(scaled_curve[k] + noise[k])])
            /\ np_random' = Advance(g, num_steps)
    /\ result' = Outcome("ok")
    /\ pc' = IF caller = "run_temporal_analysis" THEN "inject" ELSE "done"
    /\ UNCHANGED <<field_class, num_steps, field_pixels, avg_base_ndvi, scaled_curve>>
    /\ SimFrame

----------------------------------------------------------------------------
(* detect_anomalies *)

\* the rolling window of position i (1-based) in a series of n points:
\* pandas' fixed centered window, end = i + (w - 1) // 2, start = end - w + 1,
\* both clipped to the series
WinStart(i, n, w) ==
    LET st == i + ((w - 1) \div 2) - w + 1 IN IF st < 1 THEN 1 ELSE st
WinEnd(i, n, w) ==
    LET en == i + ((w - 1) \div 2) IN IF en > n THEN n ELSE en

RECURSIVE SumRange(_, _, _)
SumRange(v, a, b) == IF a > b THEN 0 ELSE v[a] + SumRange(v, a + 1, b)

\* .rolling(window, center=True, min_periods=1).mean(): sum / count, exact
RollingMean(v, w) ==
    [i \in 1..Len(v) |->
        [num |-> SumRange(v, WinStart(i, Len(v), w), WinEnd(i, Len(v), w)),
         den |-> WinEnd(i, Len(v), w) - WinStart(i, Len(v), w) + 1]]

\* .rolling(window, center=True, min_periods=1).std(): the sample standard
\* deviation (ddof=1), kept as its square num / den; NaN below two points
RollingStd(v, w) ==
    [i \in 1..Len(v) |->
        LET a == WinStart(i, Len(v), w)
            b == WinEnd(i, Len(v), w)
            cnt == b - a + 1
            sm == SumRange(v, a, b)
            sq == SumRange([k \in 1..Len(v) |-> v[k] * v[k]], a, b)
        IN  IF cnt < 2 THEN [nan |-> TRUE, num |-> 0, den |-> 1]
            ELSE [nan |-> FALSE, num |-> cnt * sq - sm * sm, den |-> cnt * (cnt - 1)]]

\* np.abs(x - mean) > std * threshold; a comparison with NaN is False
DevExceedsAnyThresholdMutant(x, mean, std, t) ==
    IF std.nan THEN FALSE
    ELSE LET d == x * mean.den - mean.num
         IN  d * d * std.den > std.num * mean.den * mean.den
DevExceedsOrEqualMutant(x, mean, std, t) ==
    IF std.nan THEN FALSE
    ELSE LET d == x * mean.den - mean.num
         IN  IF t.num < 0 THEN TRUE
             ELSE d * d * std.den * t.den * t.den
                    >= std.num * t.num * t.num * mean.den * mean.den
DevExceeds(x, mean, std, t) ==
    IF std.nan THEN FALSE
    ELSE LET d == x * mean.den - mean.num
         IN  IF t.num < 0 THEN d # 0 \/ std.num > 0
             ELSE d * d * std.den * t.den * t.den
                    > std.num * t.num * t.num * mean.den * mean.den

\* lines 65-75 on the frame df
AnnotatedFrame(df, w, t) ==
    LET v == df.data["ndvi"]
        mean == RollingMean(v, w)
        std == RollingStd(v, w)
        d1 == SetColumn(df, "rolling_mean", mean)
        d2 == SetColumn(d1, "rolling_std", std)
    IN  SetColumn(d2, "is_anomaly",
            [i \in 1..Len(v) |-> DevExceeds(v[i], mean[i], std[i], t)])

\* detect_anomalies(time_series_df, window, std_dev_threshold): copy the
\* frame, add the three columns to the copy and return it; the columns reach
\* the argument only if the copy is the same object
DetectAnomalies ==
    /\ pc = "detect"
    /\ LET df == AnnotatedFrame(DfCopy(time_series_df, time_series_df.id + 1),
                                window, std_dev_threshold)
       IN  /\ analysis_df' = df
           /\ time_series_df' = IF df.id = time_series_df.id THEN df ELSE time_series_df
    /\ pc' = "done"
    /\ UNCHANGED <<window, std_dev_threshold>>
    /\ UNCHANGED <<data_cube, ground_truth, result, index_maps, caller, clfVars, simVars, procVars>>

\* window=3 and std_dev_threshold=2.0, the defaults
DefaultWindow == 3
DefaultThreshold == [num |-> 2, den |-> 1]

\* std_dev_threshold=1.0 and anomaly_index = 6 of run_temporal_analysis
AppThresholdDefaultMutant == DefaultThreshold
AppThreshold == [num |-> 1, den |-> 1]
AnomalyIndex == 6

\* x * 0.4
DropTo40Percent(x) == RoundDiv(4 * x, 10)

\* app.py lines 49-54: copy the series, drop position 6 to 40% and call
\* detect_anomalies(ts_with_anomaly, std_dev_threshold=1.0)
AppInject ==
    /\ pc = "inject"
    /\ LET ts_with_anomaly == DfCopy(ts_df, ts_df.id + 1)
           v == ts_with_anomaly.data["ndvi"]
       IN  time_series_df' = SetColumn(ts_with_anomaly, "ndvi",
                [v EXCEPT ![AnomalyIndex + 1] = DropTo40Percent(v[AnomalyIndex + 1])])
    /\ window' = DefaultWindow
    /\ std_dev_threshold' = AppThreshold
    /\ pc' = "detect"
    /\ UNCHANGED analysis_df
    /\ UNCHANGED <<data_cube, ground_truth, result, index_maps, caller, clfVars, simVars, procVars>>

TemporalInit ==
    /\ pc = "select"
    /\ \E off \in 0..2, a \in 0..SimPixels :
        \E b \in 0..(SimPixels - a) :
          \E c \in 0..(SimPixels - a - b) :
            /\ data_cube = [h |-> 1, w |-> SimPixels, bands |-> SalinasBands,
                            dtype |-> "uint16",
                            sig |-> StripedSigs(SimPixels, off, 3)]
            /\ ground_truth = [h |-> 1, w |-> SimPixels,
                               v |-> RunLabels(SimPixels, a, b, c)]
    /\ \/ /\ caller = "simulate_ndvi_time_series"
          /\ field_class \in {1, 2}
          /\ num_steps \in 1..MaxSteps
       \/ /\ caller = "run_temporal_analysis"
          /\ field_class = DefaultFieldClass
          /\ num_steps = DefaultSteps
    /\ field_pixels = {}
    /\ avg_base_ndvi = 0
    /\ scaled_curve = <<>>
    /\ ts_df = None
    /\ ClfIdle
    /\ IdxIdle
    /\ DetIdle
    /\ FreshProcess
    /\ result = Pending

TemporalNext ==
    \/ SimSelect
    \/ SimBaseline
    \/ SimCurve
    \/ SimNoise
    \/ AppInject
    \/ DetectAnomalies

SpecTemporal == TemporalInit /\ [][TemporalNext]_vars

\* the thresholds tried
Thresholds ==
    { [num |-> -1, den |-> 1], [num |-> 0, den |-> 1], [num |-> 1, den |-> 2],
      AppThreshold, [num |-> 3, den |-> 2], DefaultThreshold }

DetectInit ==
    /\ pc = "detect"
    /\ caller = "detect_anomalies"
    /\ \E n \in 0..MaxLen :
        \E v \in [1..n -> 0..MaxVal] :
            time_series_df = DataFrame(1, DateRange(n), v)
    /\ window \in 1..MaxWindow
    /\ std_dev_threshold \in Thresholds
    /\ analysis_df = None
    /\ data_cube = None
    /\ ground_truth = NoLabels
    /\ ClfIdle
    /\ IdxIdle
    /\ SimIdle
    /\ FreshProcess
    /\ result = Pending

DetectNext == DetectAnomalies

SpecDetect == DetectInit /\ [][DetectNext]_vars

----------------------------------------------------------------------------
(* A process that calls the components one after the other, as the         *)
(* dashboard does on every rerun of its script.                            *)

\* the generator states a process is started in
SessionGens ==
    { [known |-> TRUE, st |-> st, e |-> <<-2 * NoiseSd, 0, 2 * NoiseSd>>] :
        st \in {0, AnomalyIndex} }

\* the series handed to detect_anomalies
SessionSeries == { <<0, MaxVal, 0>>, <<MaxVal, MaxVal, MaxVal, 0>> }

\* a call's locals are gone when it has returned
ReleaseLocals ==
    /\ split' = None /\ rf' = None /\ metrics' = None /\ y_pred_full' = None
    /\ field_class' = 0 /\ num_steps' = 0 /\ field_pixels' = {}
    /\ avg_base_ndvi' = 0 /\ scaled_curve' = <<>> /\ ts_df' = None
    /\ time_series_df' = None /\ window' = 0
    /\ std_dev_threshold' = None /\ analysis_df' = None
    /\ index_maps' = [n \in IndexNames |-> NotComputed]
    /\ result' = Pending

CanCall == pc = "idle" /\ Len(history) < MaxCalls
SessionFrame == UNCHANGED <<data_cube, ground_truth, procVars>>

\* index_calculators[vi_selection](data_cube)
SessionIndex ==
    /\ CanCall
    /\ pc' = "index"
    /\ caller' = "index_calculators"
    /\ UNCHANGED <<result, index_maps, clfVars, simVars, detVars>>
    /\ SessionFrame

\* classify_pixels(data_cube, ground_truth)
SessionClassify ==
    /\ CanCall
    /\ pc' = "filter"
    /\ caller' = "classify_pixels"
    /\ UNCHANGED <<result, index_maps, clfVars, simVars, detVars>>
    /\ SessionFrame

\* simulate_ndvi_time_series(data_cube, ground_truth)
SessionSimulate ==
    /\ CanCall
    /\ pc' = "select"
    /\ caller' = "simulate_ndvi_time_series"
    /\ field_class' = DefaultFieldClass
    /\ num_steps' = DefaultSteps
    /\ UNCHANGED <<field_pixels, avg_base_ndvi, scaled_curve, ts_df>>
    /\ UNCHANGED <<result, index_maps, clfVars, detVars>>
    /\ SessionFrame

\* detect_anomalies(df) and detect_anomalies(df, std_dev_threshold=1.0)
SessionDetect ==
    /\ CanCall
    /\ pc' = "detect"
    /\ caller' = "detect_anomalies"
    /\ \E v \in SessionSeries : time_series_df' = DataFrame(1, DateRange(Len(v)), v)
    /\ window' = DefaultWindow
    /\ std_dev_threshold' \in {DefaultThreshold, AppThreshold}
    /\ UNCHANGED analysis_df
    /\ UNCHANGED <<result, index_maps, clfVars, simVars>>
    /\ SessionFrame

\* what the caller passed besides the cube and the label map
CallArgs ==
    IF caller = "simulate_ndvi_time_series"
    THEN [fn |-> caller, a |-> <<field_class, num_steps>>]
    ELSE IF caller = "detect_anomalies"
    THEN [fn |-> caller, a |-> <<time_series_df.data["ndvi"], window, std_dev_threshold>>]
    ELSE [fn |-> caller, a |-> <<>>]

\* what the caller got back: an exception, or the value returned (of the
\* classifier, whose forest is left open here, the shape of the map)
CallOutcome ==
    IF caller = "simulate_ndvi_time_series"
    THEN IF result.status = "ok" THEN [status |-> "ok", value |-> ts_df.data]
         ELSE [status |-> result.status, value |-> <<>>]
    ELSE IF caller = "detect_anomalies"
    THEN [status |-> "ok", value |-> analysis_df.data]
    ELSE IF caller = "index_calculators"
    THEN [status |-> "ok", value |-> index_maps]
    ELSE IF result.status = "ok"
    THEN [status |-> "ok", value |-> <<result.map.h, result.map.w>>]
    ELSE [status |-> result.status, value |-> <<>>]

\* the call has returned or raised
Completed ==
    \/ pc = "done"
    \/ pc = "index" /\ \A n \in IndexNames : index_maps[n] # NotComputed

\* back in the caller: note the call and what came of it
SessionReturn ==
    /\ Completed
    /\ history' = Append(history, [call |-> CallArgs, outcome |-> CallOutcome])
    /\ pc' = "idle"
    /\ ReleaseLocals
    /\ UNCHANGED <<data_cube, ground_truth, caller, np_random>>

SessionInit ==
    /\ pc = "idle"
    /\ caller = "none"
    /\ \E off \in 0..2, a \in {0, SimPixels} :
        /\ data_cube = [h |-> 1, w |-> SimPixels, bands |-> SalinasBands,
                        dtype |-> "uint16",
                        sig |-> StripedSigs(SimPixels, off, 3)]
        /\ ground_truth = [h |-> 1, w |-> SimPixels,
                           v |-> RunLabels(SimPixels, a, SimPixels - a, 0)]
    /\ np_random \in SessionGens
    /\ history = <<>>
    /\ index_maps = [n \in IndexNames |-> NotComputed]
    /\ ClfIdle
    /\ SimIdle
    /\ DetIdle
    /\ result = Pending

SessionNext ==
    \/ SessionIndex
    \/ SessionClassify
    \/ SessionSimulate
    \/ SessionDetect
    \/ SessionReturn
    \/ CallNdvi
    \/ CallSavi
    \/ CallNdwi
    \/ CallNdre
    \/ ClfFilter
    \/ ClfSplit
    \/ ClfTrain
    \/ ClfEvaluate
    \/ ClfPredictFull
    \/ SimSelect
    \/ SimBaseline
    \/ SimCurve
    \/ SimNoise
    \/ DetectAnomalies

SpecSession == SessionInit /\ [][SessionNext]_vars

----------------------------------------------------------------------------
(* Properties of a sequence of calls, checked under SpecSession. *)

\* two outcomes of the same call are the same: the same exception or equal
\* values
SameOutcome(x, y) ==
    /\ x.status = y.status
    /\ x.status = "ok" => x.value = y.value

\* C11: in a sequence of calls on the same cube and label map, two calls of
\* the same component with the same arguments come out the same, whichever
\* calls ran before them.
C11_OutcomeIndependentOfEarlierCalls ==
    \A i \in 1..Len(history), j \in 1..Len(history) :
        history[i].call = history[j].call
            => SameOutcome(history[i].outcome, history[j].outcome)

----------------------------------------------------------------------------
(* Properties of simulate_ndvi_time_series *)

TargetPixels == {i \in 1..Len(ground_truth.v) : ground_truth.v[i] = field_class}
ClassOnePixels == {i \in 1..Len(ground_truth.v) : ground_truth.v[i] = 1}
Selected == pc \in {"baseline", "curve", "noise", "inject", "detect"}
              \/ (pc = "done" /\ result.status # "ValueError")
Returned == pc \in {"inject", "detect", "done"} /\ result.status = "ok"

\* C4: the simulator works on the pixels of the target class when there is
\* one, otherwise on the pixels of class 1, and when there is neither it
\* raises and returns no series.
C4_SelectionFallbackOrRaise ==
    /\ pc # "select" /\ TargetPixels # {}
          => Selected /\ field_pixels = TargetPixels
    /\ pc # "select" /\ TargetPixels = {} /\ ClassOnePixels # {}
          => Selected /\ field_pixels = ClassOnePixels
    /\ pc # "select" /\ TargetPixels = {} /\ ClassOnePixels = {}
          => pc = "done" /\ result.status = "ValueError" /\ ts_df = None
C4_Witness ==
    /\ pc = "baseline"
    /\ field_class = 2
    /\ TargetPixels = {}
    /\ field_pixels = ClassOnePixels
    /\ field_pixels # {}

\* C5: a returned series has exactly num_steps records, its dates start at
\* the reference date and advance by exactly 14 days, and every value lies
\* in [0, 1].
C5_RecordsDatesAndRange ==
    Returned =>
        /\ Len(ts_df.data["date"]) = num_steps
        /\ Len(ts_df.data["ndvi"]) = num_steps
        /\ ts_df.data["date"][1] = 0
        /\ \A k \in 1..(num_steps - 1) :
              ts_df.data["date"][k + 1] - ts_df.data["date"][k] = 14
        /\ \A k \in 1..num_steps :
              ts_df.data["ndvi"][k] >= 0 /\ ts_df.data["ndvi"][k] <= Scale
C5_Witness ==
    /\ Returned
    /\ num_steps = 13
    /\ \E k \in 1..num_steps : scaled_curve[k] > Scale + 2 * NoiseSd
    /\ \E k \in 1..num_steps : scaled_curve[k] > 0 /\ scaled_curve[k] < Scale

\* C6: the rescaled curve is 0.5 * baseline at its two endpoints and
\* 1.8 * baseline at its centre.
C6_CurveSpansHalfToOnePointEight ==
    pc \in {"noise", "inject", "detect"} \/ Returned =>
        /\ scaled_curve[1] = RoundDiv(5 * avg_base_ndvi, 10)
        /\ scaled_curve[num_steps] = RoundDiv(5 * avg_base_ndvi, 10)
        /\ num_steps % 2 = 1 /\ num_steps > 1
              => scaled_curve[(num_steps + 1) \div 2] = RoundDiv(18 * avg_base_ndvi, 10)

----------------------------------------------------------------------------
(* Properties of detect_anomalies *)

\* the positions of the centered window of position i
WindowOf(i) ==
    {j \in 1..Len(time_series_df.data["ndvi"]) :
        i - (window \div 2) <= j /\ j <= i + ((window - 1) \div 2)}

\* |value - mean| > std * threshold over the positions W, for a window of at
\* least two points, cleared of its divisions and its square root
Deviates(i, W) ==
    LET v == time_series_df.data["ndvi"]
        n == Cardinality(W)
        S == SumOver(W, v)
        dev == n * v[i] - S
        sq == SumOver(W, [j \in 1..Len(v) |-> (n * v[j] - S) * (n * v[j] - S)])
        t == std_dev_threshold
    IN  IF t.num >= 0
        THEN dev * dev * (n - 1) * t.den * t.den > sq * t.num * t.num
        ELSE sq > 0 \/ dev # 0

\* C7: is_anomaly is a boolean at every position; it is true exactly where
\* the window holds at least two points and the value deviates from the
\* window's mean by more than threshold times its standard deviation.
C7_FlagIffDeviationExceeds ==
    pc = "done" /\ caller = "detect_anomalies" =>
        /\ Len(analysis_df.data["is_anomaly"]) = Len(time_series_df.data["ndvi"])
        /\ \A i \in 1..Len(time_series_df.data["ndvi"]) :
              /\ analysis_df.data["is_anomaly"][i] \in BOOLEAN
              /\ analysis_df.data["is_anomaly"][i]
                    = (Cardinality(WindowOf(i)) >= 2 /\ Deviates(i, WindowOf(i)))
C7_Witness ==
    /\ pc = "done"
    /\ caller = "detect_anomalies"
    /\ \E i \in 1..Len(time_series_df.data["ndvi"]) :
          /\ analysis_df.data["rolling_std"][i].nan
          /\ ~analysis_df.data["is_anomaly"][i]
    /\ \E i \in 1..Len(time_series_df.data["ndvi"]) :
          analysis_df.data["is_anomaly"][i]

\* C12: a call of detect_anomalies leaves its argument as it was, and what
\* it returns is another object: the argument's records in the same order
\* and its columns, followed by rolling_mean, rolling_std and is_anomaly.
C12_InputUntouchedOutputNew ==
    [][DetectAnomalies =>
          /\ time_series_df' = time_series_df
          /\ analysis_df'.id # time_series_df.id
          /\ analysis_df'.columns
                = time_series_df.columns \o <<"rolling_mean", "rolling_std", "is_anomaly">>
          /\ \A c \in DOMAIN time_series_df.data :
                analysis_df'.data[c] = time_series_df.data[c]
          /\ \A c \in {"rolling_mean", "rolling_std", "is_anomaly"} :
                Len(analysis_df'.data[c]) = Len(time_series_df.data["ndvi"])]_vars
C12_Witness ==
    /\ pc = "done"
    /\ caller = "detect_anomalies"
    /\ Len(time_series_df.data["ndvi"]) >= 2
    /\ time_series_df.columns = <<"date", "ndvi">>
    /\ Len(analysis_df.columns) = 5
    /\ analysis_df.id # time_series_df.id

\* C14: with window 3 and threshold 2.0, the defaults, no position of any
\* series is flagged.
C14_DefaultsFlagNothing ==
    (pc = "done" /\ caller = "detect_anomalies"
        /\ window = 3 /\ std_dev_threshold = [num |-> 2, den |-> 1]) =>
        \A i \in 1..Len(analysis_df.data["is_anomaly"]) :
            ~analysis_df.data["is_anomaly"][i]
C14_Witness ==
    /\ pc = "done"
    /\ caller = "detect_anomalies"
    /\ window = 3
    /\ std_dev_threshold = [num |-> 2, den |-> 1]
    /\ \E i \in 2..(Len(analysis_df.data["ndvi"]) - 1) :
          /\ analysis_df.data["ndvi"][i] = MaxVal
          /\ analysis_df.data["ndvi"][i - 1] = 0
          /\ analysis_df.data["ndvi"][i + 1] = 0
          /\ ~analysis_df.data["is_anomaly"][i]

AppAnalysed == pc = "done" /\ caller = "run_temporal_analysis" /\ result.status = "ok"

\* the differences of the two neighbours of position 6 from the dropped value
LeftGap == ts_df.data["ndvi"][AnomalyIndex] - DropTo40Percent(ts_df.data["ndvi"][AnomalyIndex + 1])
RightGap == ts_df.data["ndvi"][AnomalyIndex + 2] - DropTo40Percent(ts_df.data["ndvi"][AnomalyIndex + 1])

\* C8 as stated: after the 40% drop at position 6 of a simulated 13-step
\* series, detection with window 3 and threshold 1.0 flags position 6.
C8_DropAlwaysFlagged ==
    AppAnalysed => analysis_df.data["is_anomaly"][AnomalyIndex + 1]

\* C8: after the 40% drop at position 6 of a simulated 13-step series,
\* detection with window 3 and threshold 1.0 flags position 6 exactly when
\* the two neighbours lie on the same side of the dropped value and neither
\* gap is twice the other or more.
C8_DropFlaggedIffGapsComparable ==
    AppAnalysed =>
        analysis_df.data["is_anomaly"][AnomalyIndex + 1]
            = ((2 * LeftGap - RightGap) * (LeftGap - 2 * RightGap) < 0)
C8_Witness ==
    /\ AppAnalysed
    /\ avg_base_ndvi > 0
    /\ ts_df.data["ndvi"][AnomalyIndex + 1] > 0
    /\ time_series_df.data["ndvi"][AnomalyIndex + 1]
          = DropTo40Percent(ts_df.data["ndvi"][AnomalyIndex + 1])
    /\ analysis_df.data["is_anomaly"][AnomalyIndex + 1]
====
